---- MODULE Spec2Model ----
(***************************************************************************)
(* Model of the ClubScout lookup route (src/app/api/search/route.ts): the  *)
(* UPC normaliser, the sheet parser, the in-memory row cache and the GET   *)
(* handler.  Strings are sequences of one-character strings, so that       *)
(* digitsOnly, trim, toLowerCase and the leading-zero strip are computed   *)
(* character by character as the code computes them.                       *)
(***************************************************************************)
EXTENDS Integers, Sequences, FiniteSets, TLC

----------------------------------------------------------------------------
(* Bounds of the model *)

\* number of request slots that can be in flight at the same time
MaxReq == 2
\* the clock advances at most this many times
MaxTicks == 3
\* milliseconds the clock advances per Tick (3 ticks = the default ttl)
TickMs == 10000
\* longest input string built for the normaliser specification
MaxInputLen == 14
\* most non-digit characters in such a string
MaxNonDigits == 1
\* highest retail, in cents, shown on the page in the pricing specification
MaxRetailCents == 4600
\* most data rows of a sheet in the parser specification
MaxRows == 2
\* most searches the page starts in the page specification
MaxSearches == 2

----------------------------------------------------------------------------
(* Characters and strings *)

DigitChars == {"0", "1", "2", "3", "4", "5", "6", "7", "8", "9"}

UpperChars == <<"A", "B", "C", "D", "E", "F", "G", "H", "I", "J", "K", "L", "M",
                "N", "O", "P", "Q", "R", "S", "T", "U", "V", "W", "X", "Y", "Z">>

LowerChars == <<"a", "b", "c", "d", "e", "f", "g", "h", "i", "j", "k", "l", "m",
                "n", "o", "p", "q", "r", "s", "t", "u", "v", "w", "x", "y", "z">>

\* the value JavaScript null / a failed normalisation; never a string,
\* because every element of a string is a single character
Null == <<"null">>

\* String.prototype.toLowerCase, one character
toLowerChar(c) ==
  IF \E i \in 1..26 : UpperChars[i] = c
    THEN LowerChars[CHOOSE i \in 1..26 : UpperChars[i] = c]
    ELSE c

\* String.prototype.toLowerCase
toLowerCase(s) == [i \in 1..Len(s) |-> toLowerChar(s[i])]

\* s.replace(/^0+/, "")
RECURSIVE stripLeadingZeros(_)
stripLeadingZeros(s) ==
  IF s # <<>> /\ Head(s) = "0" THEN stripLeadingZeros(Tail(s)) ELSE s

RECURSIVE trimStart(_)
trimStart(s) ==
  IF s # <<>> /\ Head(s) = " " THEN trimStart(Tail(s)) ELSE s

RECURSIVE trimEnd(_)
trimEnd(s) ==
  IF s # <<>> /\ s[Len(s)] = " " THEN trimEnd(SubSeq(s, 1, Len(s) - 1)) ELSE s

\* String.prototype.trim
trim(s) == trimEnd(trimStart(s))

\* (input || "").replace(/\D/g, "")
digitsOnly(input) == SelectSeq(input, LAMBDA c : c \in DigitChars)

----------------------------------------------------------------------------
(* upcToCore11: scanned or typed UPC -> 11-digit core, or Null *)

\* as upcToCore11, but a 12-digit UPC-A keeps its check digit
upcToCore11_KeepCheck(input) ==
  LET d0 == digitsOnly(input)
      d  == IF Len(d0) = 13 THEN stripLeadingZeros(d0) ELSE d0
  IN  IF Len(d) = 12 THEN d
      ELSE IF Len(d) = 11 THEN d
      ELSE Null

\* as upcToCore11, but leading zeros are stripped whatever the length
upcToCore11_StripAlways(input) ==
  LET d == stripLeadingZeros(digitsOnly(input))
  IN  IF Len(d) = 12 THEN SubSeq(d, 1, 11)
      ELSE IF Len(d) = 11 THEN d
      ELSE Null

\* as upcToCore11, but anything of 12 digits or more is cut to its first 11
upcToCore11_Truncate(input) ==
  LET d0 == digitsOnly(input)
      d  == IF Len(d0) = 13 THEN stripLeadingZeros(d0) ELSE d0
  IN  IF Len(d) >= 12 THEN SubSeq(d, 1, 11)
      ELSE IF Len(d) = 11 THEN d
      ELSE Null

upcToCore11(input) ==
  LET d0 == digitsOnly(input)
      d  == IF Len(d0) = 13 THEN stripLeadingZeros(d0) ELSE d0
  IN  IF Len(d) = 12 THEN SubSeq(d, 1, 11)
      ELSE IF Len(d) = 11 THEN d
      ELSE Null

----------------------------------------------------------------------------
(* Money.  A JavaScript number is modelled by the integer number of        *)
(* 1/10000 units it denotes; the texts parsed here have at most four       *)
(* fraction digits, so parsing and the products by 0.7 and 0.5 are exact.  *)

DigitValue(c) == CHOOSE v \in 0..9 :
  <<"0", "1", "2", "3", "4", "5", "6", "7", "8", "9">>[v + 1] = c

RECURSIVE NatValue(_)
NatValue(s) ==
  IF s = <<>> THEN 0
  ELSE 10 * NatValue(SubSeq(s, 1, Len(s) - 1)) + DigitValue(s[Len(s)])

AllDigits(s) == \A i \in 1..Len(s) : s[i] \in DigitChars

\* position of the first "." of s, or 0
DotAt(s) ==
  IF \E i \in 1..Len(s) : s[i] = "."
    THEN CHOOSE i \in 1..Len(s) : s[i] = "." /\ \A j \in 1..(i - 1) : s[j] # "."
    ELSE 0

\* the decimal literals Number() accepts: [+-]? ( digits [. digits] | . digits )
IsDecimalLiteral(s) ==
  LET body == IF s # <<>> /\ Head(s) \in {"+", "-"} THEN Tail(s) ELSE s
      dot  == DotAt(body)
      ip   == IF dot = 0 THEN body ELSE SubSeq(body, 1, dot - 1)
      fp   == IF dot = 0 THEN <<>> ELSE SubSeq(body, dot + 1, Len(body))
  IN  /\ AllDigits(ip)
      /\ AllDigits(fp)
      /\ Len(ip) + Len(fp) > 0

RECURSIVE Pow10(_)
Pow10(n) == IF n = 0 THEN 1 ELSE 10 * Pow10(n - 1)

\* Number(cleaned) of a decimal literal, in 1/10000 units
DecimalValue(s) ==
  LET neg  == s # <<>> /\ Head(s) = "-"
      body == IF s # <<>> /\ Head(s) \in {"+", "-"} THEN Tail(s) ELSE s
      dot  == DotAt(body)
      ip   == IF dot = 0 THEN body ELSE SubSeq(body, 1, dot - 1)
      fp   == IF dot = 0 THEN <<>> ELSE SubSeq(body, dot + 1, Len(body))
      fp4  == SubSeq(fp, 1, IF Len(fp) < 4 THEN Len(fp) ELSE 4)
      mag  == NatValue(ip) * 10000 + NatValue(fp4) * Pow10(4 - Len(fp4))
  IN  IF neg THEN 0 - mag ELSE mag

\* parseMoney with only the currency sign removed, the commas left in
parseMoney_KeepComma(val) ==
  LET cleaned == trim(SelectSeq(val, LAMBDA c : c # "$"))
  IN  IF cleaned = <<>> THEN 0
      ELSE IF IsDecimalLiteral(cleaned) THEN DecimalValue(cleaned)
      ELSE 0

\* Number(cleaned): "" is 0, a decimal literal its value, anything else NaN,
\* which parseMoney turns into 0 (the texts of the model hold no exponent,
\* hexadecimal or Infinity spelling, which Number() reads too)
parseMoney(val) ==
  LET cleaned == trim(SelectSeq(val, LAMBDA c : c \notin {"$", ","}))
  IN  IF cleaned = <<>> THEN 0
      ELSE IF IsDecimalLiteral(cleaned) THEN DecimalValue(cleaned)
      ELSE 0

\* Math.round((n + Number.EPSILON) * 100) / 100: to the cent, halves up
roundMoney(n) == ((n + 50) \div 100) * 100

\* roundMoney(retail * 0.7) and roundMoney(retail * 0.5), as GET computes them
tier1Of(retail) == ((retail * 7 + 500) \div 1000) * 100
tier2Of(retail) == ((retail * 5 + 500) \div 1000) * 100

----------------------------------------------------------------------------
(* fetchRows: the sheet's values (row 1 is the header) -> Row records *)

ImportDateName == <<"I", "m", "p", "o", "r", "t", " ", "D", "a", "t", "e">>
DescriptionName == <<"D", "e", "s", "c", "r", "i", "p", "t", "i", "o", "n">>
ItemNumberName == <<"I", "t", "e", "m", "N", "u", "m", "b", "e", "r">>
UpcNumberName == <<"U", "P", "C", " ", "N", "u", "m", "b", "e", "r">>
CategoryName == <<"C", "a", "t", "e", "g", "o", "r", "y", " ", "d", "e", "s", "c", "r", "i", "p", "t", "i", "o", "n">>

RetailNames == <<
  <<"R", "e", "t", "a", "i", "l", " ", "p", "e", "r", " ", "U", "n", "i", "t">>,
  <<"R", "e", "t", "a", "i", "l", " ", "p", "e", "r", " ", "u", "n", "i", "t">>,
  <<"R", "e", "t", "a", "i", "l", " ", "p", "e", "r", " ", "U", "n", "i", "t", " ", "(", "U", "S", "D", "$", ")">>,
  <<"R", "e", "t", "a", "i", "l", " ", "p", "e", "r", " ", "u", "n", "i", "t", " ", "(", "U", "S", "D", "$", ")">>,
  <<"R", "e", "t", "a", "i", "l", " ", "p", "e", "r", " ", "U", "n", "i", "t", " ", "(", "U", "S", "D", ")">>,
  <<"R", "e", "t", "a", "i", "l", " ", "p", "e", "r", " ", "u", "n", "i", "t", " ", "(", "U", "S", "D", ")">> >>

\* column K, used when no retail header matches
RetailFallbackIndex == 10

\* values[0].map((h) => (h || "").toString().trim())
headerOf(values) == [i \in 1..Len(values[1]) |-> trim(values[1][i])]

\* header.findIndex(...): 0-based index of the first match, or -1
idx(header, name) ==
  LET hits == {i \in 1..Len(header) : toLowerCase(header[i]) = toLowerCase(name)}
  IN  IF hits = {} THEN -1
      ELSE (CHOOSE i \in hits : \A j \in hits : i <= j) - 1

\* the leftmost column that carries any of the names
idxAny_Leftmost(header, names) ==
  LET columns == {idx(header, names[k]) : k \in 1..Len(names)} \ {-1}
  IN  IF columns = {} THEN -1
      ELSE CHOOSE i \in columns : \A j \in columns : i <= j

\* names.map(idx).find((i) => i >= 0) ?? -1
idxAny(header, names) ==
  LET hits == {k \in 1..Len(names) : idx(header, names[k]) >= 0}
  IN  IF hits = {} THEN -1
      ELSE idx(header, names[CHOOSE k \in hits : \A j \in hits : k <= j])

\* (i >= 0 ? (row[i] ?? "").toString().trim() : "")
getAt(row, i) ==
  IF i >= 0 /\ i + 1 <= Len(row) THEN trim(row[i + 1]) ELSE <<>>

\* the column indexes fetchRows works out from the header, once
columnsOf(header) ==
  LET iRetail0 == idxAny(header, RetailNames)
  IN  [ iImportDate    |-> idx(header, ImportDateName),
        iDescription   |-> idx(header, DescriptionName),
        iItemNumber    |-> idx(header, ItemNumberName),
        iUpc           |-> idx(header, UpcNumberName),
        iCategory      |-> idx(header, CategoryName),
        iRetailPerUnit |-> IF iRetail0 < 0 THEN RetailFallbackIndex ELSE iRetail0 ]

\* the UPC stored with its leading zeros
rowOf_KeepZeros(cols, row) ==
  [ importDate          |-> getAt(row, cols.iImportDate),
    description         |-> getAt(row, cols.iDescription),
    itemNumber          |-> getAt(row, cols.iItemNumber),
    upcNumber           |-> digitsOnly(getAt(row, cols.iUpc)),
    categoryDescription |-> getAt(row, cols.iCategory),
    retailPerUnit       |-> getAt(row, cols.iRetailPerUnit) ]

\* the Row pushed for one data row
rowOf(cols, row) ==
  [ importDate          |-> getAt(row, cols.iImportDate),
    description         |-> getAt(row, cols.iDescription),
    itemNumber          |-> getAt(row, cols.iItemNumber),
    upcNumber           |-> stripLeadingZeros(digitsOnly(getAt(row, cols.iUpc))),
    categoryDescription |-> getAt(row, cols.iCategory),
    retailPerUnit       |-> getAt(row, cols.iRetailPerUnit) ]

\* the row is tested on the UPC as it is stored, after normalisation
keepsRow_Normalized(cols, row) ==
  \/ getAt(row, cols.iItemNumber) # <<>>
  \/ stripLeadingZeros(digitsOnly(getAt(row, cols.iUpc))) # <<>>

\* if (!itemNumber && !upcNumber) continue;   (both before normalisation)
keepsRow(cols, row) ==
  \/ getAt(row, cols.iItemNumber) # <<>>
  \/ getAt(row, cols.iUpc) # <<>>

RECURSIVE parseDataRows(_, _)
parseDataRows(cols, dataRows) ==
  IF dataRows = <<>> THEN <<>>
  ELSE (IF keepsRow(cols, Head(dataRows))
          THEN <<rowOf(cols, Head(dataRows))>>
          ELSE <<>>) \o parseDataRows(cols, Tail(dataRows))

\* the rows fetchRows returns for the sheet's current values
fetchRows(values) ==
  IF Len(values) < 2 THEN <<>>
  ELSE parseDataRows(columnsOf(headerOf(values)), Tail(values))

----------------------------------------------------------------------------
(* The inputs of the model: sheets the adapter can return, query strings,   *)
(* settings of SHEETS_CACHE_SECONDS and messages the adapter can throw.     *)

SheetHeader == <<ImportDateName, DescriptionName, ItemNumberName, UpcNumberName,
                 CategoryName, RetailNames[1]>>

\* the same columns, spelled in another case and padded, UPC before item
SheetHeaderAlt == <<<<"u", "p", "c", " ", "n", "u", "m", "b", "e", "r", " ">>,
                    <<"I", "T", "E", "M", "N", "U", "M", "B", "E", "R">>,
                    RetailNames[4]>>

SheetA == <<SheetHeader,
  << <<"1", "/", "2">>, <<"S", "h", "i", "r", "t">>, <<"A", "-", "7", "7">>,
     <<"1", "9", "3", "9", "6", "8", "5", "0", "2", "5", "5">>,
     <<"M", "E", "N", "S", " ", "A", "P", "P", "A", "R", "E", "L">>,
     <<"$", "1", "9", ".", "9", "8">> >>,
  << <<>>, <<"n", "o", " ", "i", "d">>, <<>>, <<" ">>, <<>>, <<"5">> >>,
  << <<>>, <<"S", "o", "a", "p">>, <<>>,
     <<"0", "1", "2", "3", "4", "5", "6", "7", "8", "9", "0">>,
     <<>>, <<"n", "/", "a">> >>,
  << <<>>, <<"C", "a", "p">>, <<"7", "7">>, <<>>,
     <<"A", "C", "C", "E", "S", "S", "O", "R", "I", "E", "S">>, <<"8">> >> >>

SheetB == <<SheetHeaderAlt,
  << <<"1", "9", "3", "9", "6", "8", "5", "0", "2", "5", "5">>,
     <<"X", "Y">>, <<"1", "0", ".", "0", "1">> >>,
  << <<"1", "9", "3", "9", "6", "8", "5", "0", "2", "5", "5">>,
     <<"7", "7">>, <<"$", "1", ",", "2", "5", "0">> >>,
  << <<>>, <<"x", "1", "2", "3">>, <<"n", "/", "a">> >> >>

\* a sheet with a header and no data row
SheetEmpty == <<SheetHeader>>

\* the versions of the remote sheet and the values of each
Sheets == {"A", "B", "Empty"}

SheetValues == [A |-> SheetA, B |-> SheetB, Empty |-> SheetEmpty]

\* raw values of the q parameter; <<>> is a missing parameter
QSet == { <<>>, <<" ">>,
          <<"1", "9", "3", "9", "6", "8", "5", "0", "2", "5", "5", "3">>,
          <<"0", "1", "2", "3", "4", "5", "6", "7", "8", "9", "0", "5">>,
          <<"A", "B", "C", "1", "2", "3">>,
          <<"A", "B", "C">>,
          <<" ", "7", "7">> }

\* raw values of the type parameter; <<>> is a missing parameter
TypeSet == { <<>>, <<"I", "t", "e", "m">> }

\* SHEETS_CACHE_SECONDS; <<>> is unset
CacheSecondsSet == { <<>>, <<"1", "0">> }

\* e.message of what the adapter throws; "" is a value without a message
AdapterMessages == {"", "Missing env var: GOOGLE_SHEETS_SPREADSHEET_ID"}

Params == [type : TypeSet, q : QSet, refresh : BOOLEAN, debug : BOOLEAN]

NoParams == [type |-> <<>>, q |-> <<>>, refresh |-> FALSE, debug |-> FALSE]

----------------------------------------------------------------------------
(* The GET handler, after the rows are available *)

NoResult == [keys |-> {}, description |-> <<>>, itemNumber |-> <<>>, category |-> <<>>,
             retailRaw |-> <<>>, retail |-> 0, tier1 |-> 0, tier2 |-> 0, upcNumber |-> <<>>]

NoDebug == [rowsLoaded |-> 0, sampleUpcFromFirstRow |-> Null,
            sampleRetailPerUnitFromFirstRow |-> Null]

\* a response: the HTTP status and the JSON body; keys are the body's members
NoResponse == [status |-> 0, keys |-> {}, ok |-> FALSE, found |-> FALSE, error |-> "",
               searched |-> <<>>, result |-> NoResult, debug |-> NoDebug]

\* (searchParams.get("type") || "upc").toLowerCase()
typeOf(p) == toLowerCase(IF p.type = <<>> THEN <<"u", "p", "c">> ELSE p.type)

\* the query parameter taken as it comes, never trimmed
qOf_NoTrim(p) == p.q

\* (searchParams.get("q") || "").trim()
qOf(p) == trim(p.q)

IsItemMode(p) == typeOf(p) = <<"i", "t", "e", "m">>

\* { ok: false, error: "Missing query" }, status 400
MissingQueryResponse ==
  [NoResponse EXCEPT !.status = 400, !.keys = {"ok", "error"}, !.error = "Missing query"]

\* { ok: false, error: "UPC must be ..." }, status 400
BadUpcResponse ==
  [NoResponse EXCEPT !.status = 400, !.keys = {"ok", "error"},
     !.error = "UPC must be 12 digits (UPC-A) or 11 digits (core without check digit)."]

\* a catch block that hides the cause behind a fixed text
ServerErrorResponse_Generic(message) ==
  [NoResponse EXCEPT !.status = 500, !.keys = {"ok", "error"}, !.error = "Server error"]

\* the catch block: { ok: false, error: e?.message || "Server error" }, status 500
ServerErrorResponse(message) ==
  [NoResponse EXCEPT !.status = 500, !.keys = {"ok", "error"},
     !.error = IF message = "" THEN "Server error" ELSE message]

\* the last of the indices instead of the first
firstOf_Last(hits) ==
  IF hits = {} THEN 0 ELSE CHOOSE i \in hits : \A j \in hits : i >= j

\* Array.prototype.find over the indices that satisfy the predicate: the
\* first of them, or 0 when there is none
firstOf(hits) ==
  IF hits = {} THEN 0 ELSE CHOOSE i \in hits : \A j \in hits : i <= j

\* the stored item number compared as it is, not reduced to its digits
findByItem_Raw(rows, qItem) ==
  firstOf({i \in 1..Len(rows) : rows[i].itemNumber = qItem})

\* rows.find((r) => digitsOnly(r.itemNumber) === qItem)
findByItem(rows, qItem) ==
  firstOf({i \in 1..Len(rows) : digitsOnly(rows[i].itemNumber) = qItem})

\* rows.find((r) => r.upcNumber === core)
findByUpc(rows, core) ==
  firstOf({i \in 1..Len(rows) : rows[i].upcNumber = core})

resultOf(match, withRaw) ==
  LET retail == parseMoney(match.retailPerUnit)
  IN  [ keys        |-> {"description", "itemNumber", "category", "retail", "tier1",
                         "tier2", "upcNumber"}
                          \cup (IF withRaw THEN {"retailRaw"} ELSE {}),
        description |-> match.description,
        itemNumber  |-> match.itemNumber,
        category    |-> match.categoryDescription,
        retailRaw   |-> IF withRaw THEN match.retailPerUnit ELSE <<>>,
        retail      |-> roundMoney(retail),
        tier1       |-> tier1Of(retail),
        tier2       |-> tier2Of(retail),
        upcNumber   |-> match.upcNumber ]

\* the debug member of a no-match response (the two environment strings it
\* also echoes are configuration and are left out)
debugOf(rows) ==
  [ rowsLoaded |-> Len(rows),
    sampleUpcFromFirstRow |->
      IF rows # <<>> /\ rows[1].upcNumber # <<>> THEN rows[1].upcNumber ELSE Null,
    sampleRetailPerUnitFromFirstRow |->
      IF rows # <<>> /\ rows[1].retailPerUnit # <<>> THEN rows[1].retailPerUnit ELSE Null ]

\* the item branch of GET
itemAnswer(p, rows) ==
  LET m == findByItem(rows, digitsOnly(qOf(p)))
  IN  IF m = 0
        THEN [NoResponse EXCEPT !.status = 200, !.keys = {"ok", "found"}, !.ok = TRUE]
        ELSE [NoResponse EXCEPT !.status = 200, !.keys = {"ok", "found", "result"},
                !.ok = TRUE, !.found = TRUE, !.result = resultOf(rows[m], FALSE)]

\* the UPC branch reporting the digits as scanned, check digit included
upcAnswer_SearchedRaw(p, rows) ==
  LET core == upcToCore11(qOf(p))
      m    == findByUpc(rows, core)
  IN  IF core = Null THEN BadUpcResponse
      ELSE IF m = 0
        THEN [NoResponse EXCEPT !.status = 200,
                !.keys = {"ok", "found", "searched"} \cup (IF p.debug THEN {"debug"} ELSE {}),
                !.ok = TRUE, !.searched = digitsOnly(qOf(p)),
                !.debug = IF p.debug THEN debugOf(rows) ELSE NoDebug]
        ELSE [NoResponse EXCEPT !.status = 200,
                !.keys = {"ok", "found", "searched", "result"},
                !.ok = TRUE, !.found = TRUE, !.searched = digitsOnly(qOf(p)),
                !.result = resultOf(rows[m], TRUE)]

\* the UPC branch of GET
upcAnswer(p, rows) ==
  LET core == upcToCore11(qOf(p))
      m    == findByUpc(rows, core)
  IN  IF core = Null THEN BadUpcResponse
      ELSE IF m = 0
        THEN [NoResponse EXCEPT !.status = 200,
                !.keys = {"ok", "found", "searched"} \cup (IF p.debug THEN {"debug"} ELSE {}),
                !.ok = TRUE, !.searched = core,
                !.debug = IF p.debug THEN debugOf(rows) ELSE NoDebug]
        ELSE [NoResponse EXCEPT !.status = 200,
                !.keys = {"ok", "found", "searched", "result"},
                !.ok = TRUE, !.found = TRUE, !.searched = core,
                !.result = resultOf(rows[m], TRUE)]

\* what GET returns once `rows` is available
answer(p, rows) == IF IsItemMode(p) THEN itemAnswer(p, rows) ELSE upcAnswer(p, rows)

----------------------------------------------------------------------------
(* The page's apparel price (src/unnamed/part_001).  result.retail comes   *)
(* from roundMoney, a whole number of cents, so the comparisons with the    *)
(* two-decimal limits are exact.                                            *)

APPAREL_CATEGORIES ==
  { <<"M", "E", "N", "S", " ", "A", "P", "P", "A", "R", "E", "L">>,
    <<"B", "A", "S", "I", "C", " ", "A", "P", "P", "A", "R", "E", "L">>,
    <<"A", "C", "C", "E", "S", "S", "O", "R", "I", "E", "S">>,
    <<"L", "A", "D", "I", "E", "S", " ", "A", "P", "P", "A", "R", "E", "L">>,
    <<"C", "H", "I", "L", "D", "R", "E", "N", "S", " ", "A", "P", "P", "A", "R", "E", "L">> }

\* the limits read as exclusive
calcApparelPrice_Strict(retail) ==
  IF retail < 159900 THEN 6
  ELSE IF retail < 229900 THEN 8
  ELSE IF retail < 279900 THEN 10
  ELSE IF retail < 309900 THEN 12
  ELSE IF retail < 369900 THEN 15
  ELSE IF retail < 449900 THEN 20
  ELSE 25

\* the price in whole dollars for a retail in 1/10000 units
calcApparelPrice(retail) ==
  IF retail <= 159900 THEN 6
  ELSE IF retail <= 229900 THEN 8
  ELSE IF retail <= 279900 THEN 10
  ELSE IF retail <= 309900 THEN 12
  ELSE IF retail <= 369900 THEN 15
  ELSE IF retail <= 449900 THEN 20
  ELSE 25

\* !!result?.category && APPAREL_CATEGORIES.has(result.category.trim())
isApparel(category) ==
  category # <<>> /\ trim(category) \in APPAREL_CATEGORIES

\* a price is <<n>>; null is the empty tuple
NullPrice == <<>>

\* isApparel ? calcApparelPrice(retail) : null
apparelPrice(category, retail) ==
  IF isApparel(category) THEN <<calcApparelPrice(retail)>> ELSE NullPrice

----------------------------------------------------------------------------
(* The cache and the requests *)

VARIABLES
  cacheSeconds,  \* process.env.SHEETS_CACHE_SECONDS
  sheet,         \* the version of the remote sheet now
  now,           \* Date.now(), in milliseconds
  cache,         \* the module variable `cache`
  pc,            \* per request: "idle", "fetching" (awaiting the adapter) or "done"
  params,        \* per request: its query parameters
  startedAt,     \* per request in flight: `now` as getCachedRows read it
  fetches,       \* per request: number of adapter calls it made
  thrown,        \* per request: the messages of what the adapter threw at it
  served,        \* per request: the rows it was served
  resp,          \* per request: its response
  scanned,       \* normaliser specification: the string given to upcToCore11
  normalized,    \* normaliser specification: what upcToCore11 returned for it
  resultCategory,\* page: result.category, empty while there is no result
  resultRetail,  \* page: result?.retail ?? 0
  shownPrice,    \* page: apparelPrice
  grid,          \* parser specification: the values the Sheets API returned
  parsed,        \* parser specification: what fetchRows made of them
  mode,          \* page.tsx: "upc" or "item"
  query,         \* page.tsx: the text of the input
  loading,       \* page.tsx
  found,         \* page.tsx: <<>> for null, else <<TRUE>> or <<FALSE>>
  searched,      \* page.tsx: Null or the key the server searched
  error,         \* page.tsx: <<>> for null, else <<message>>
  result,        \* page.tsx: <<>> for null, else <<the result of the response>>
  timer,         \* page.tsx: <<>>, or <<the doSearch closure the pending timeout calls>>
  sent,          \* page.tsx: the requests fetch() was called with, in order
  replies,       \* page.tsx: per request, <<>> while in flight, else <<its reply>>
  callsSinceChange \* page.tsx: requests sent since the input or the mode last changed

serverVars == <<cacheSeconds, sheet, now, cache, pc, params, startedAt, fetches,
                thrown, served, resp>>

normVars == <<scanned, normalized>>

pageVars == <<resultCategory, resultRetail, shownPrice>>

parseVars == <<grid, parsed>>

uiVars == <<mode, query, loading, found, searched, error, result, timer, sent,
            replies, callsSinceChange>>

vars == <<serverVars, normVars, pageVars, parseVars, uiVars>>

Reqs == 1..MaxReq

\* what fetchRows returns while the remote sheet is at version v
FetchedRows == [v \in Sheets |-> fetchRows(SheetValues[v])]

\* cache = null
NoCache == [present |-> FALSE, at |-> 0, rows |-> <<>>]

\* Number(process.env.SHEETS_CACHE_SECONDS || "30")
ttlSeconds(env) == NatValue(IF env = <<>> THEN <<"3", "0">> ELSE env)

\* cache && now - cache.at < ttlSeconds, the seconds never converted to ms
cacheIsFresh_NoMillis(c, t, env) ==
  c.present /\ t - c.at < ttlSeconds(env)

\* a snapshot, once taken, is served for ever
cacheIsFresh_NoExpiry(c, t, env) == c.present

\* cache && now - cache.at < ttlSeconds * 1000
cacheIsFresh(c, t, env) ==
  c.present /\ t - c.at < ttlSeconds(env) * 1000

Init ==
  /\ cacheSeconds \in CacheSecondsSet
  /\ sheet \in Sheets
  /\ now = 0
  /\ cache = NoCache
  /\ pc = [r \in Reqs |-> "idle"]
  /\ params = [r \in Reqs |-> NoParams]
  /\ startedAt = [r \in Reqs |-> 0]
  /\ fetches = [r \in Reqs |-> 0]
  /\ thrown = [r \in Reqs |-> <<>>]
  /\ served = [r \in Reqs |-> <<>>]
  /\ resp = [r \in Reqs |-> NoResponse]
  /\ scanned = <<>>
  /\ normalized = Null
  /\ resultCategory = <<>>
  /\ resultRetail = 0
  /\ shownPrice = NullPrice
  /\ grid = <<>>
  /\ parsed = <<>>
  /\ mode = "upc"
  /\ query = <<>>
  /\ loading = FALSE
  /\ found = <<>>
  /\ searched = Null
  /\ error = <<>>
  /\ result = <<>>
  /\ timer = <<>>
  /\ sent = <<>>
  /\ replies = <<>>
  /\ callsSinceChange = 0

\* as Request, but a lookup that finds another fetch through the cache in
\* flight joins it instead of calling the adapter itself
Request_SingleFlight(r, p) ==
  /\ pc[r] = "idle"
  /\ params' = [params EXCEPT ![r] = p]
  /\ IF qOf(p) = <<>>
       THEN /\ resp' = [resp EXCEPT ![r] = MissingQueryResponse]
            /\ pc' = [pc EXCEPT ![r] = "done"]
            /\ UNCHANGED <<startedAt, fetches, served>>
     ELSE IF (~p.refresh) /\ cacheIsFresh(cache, now, cacheSeconds)
       THEN /\ served' = [served EXCEPT ![r] = cache.rows]
            /\ resp' = [resp EXCEPT ![r] = answer(p, cache.rows)]
            /\ pc' = [pc EXCEPT ![r] = "done"]
            /\ UNCHANGED <<startedAt, fetches>>
     ELSE   /\ startedAt' = [startedAt EXCEPT ![r] = IF p.refresh THEN 0 ELSE now]
            /\ fetches' = [fetches EXCEPT ![r] =
                 IF (~p.refresh) /\ \E o \in Reqs \ {r} :
                                      pc[o] = "fetching" /\ ~params[o].refresh
                   THEN @ ELSE @ + 1]
            /\ pc' = [pc EXCEPT ![r] = "fetching"]
            /\ UNCHANGED <<served, resp>>
  /\ UNCHANGED <<cacheSeconds, sheet, now, cache, thrown, normVars, pageVars, parseVars, uiVars>>

\* GET up to its first await: the parameters, the missing-query check, then
\* either fetchRows() directly (refresh) or getCachedRows(), which answers
\* from a fresh cache or starts a fetch
Request(r, p) ==
  /\ pc[r] = "idle"
  /\ params' = [params EXCEPT ![r] = p]
  /\ IF qOf(p) = <<>>
       THEN /\ resp' = [resp EXCEPT ![r] = MissingQueryResponse]
            /\ pc' = [pc EXCEPT ![r] = "done"]
            /\ UNCHANGED <<startedAt, fetches, served>>
     ELSE IF (~p.refresh) /\ cacheIsFresh(cache, now, cacheSeconds)
       THEN /\ served' = [served EXCEPT ![r] = cache.rows]
            /\ resp' = [resp EXCEPT ![r] = answer(p, cache.rows)]
            /\ pc' = [pc EXCEPT ![r] = "done"]
            /\ UNCHANGED <<startedAt, fetches>>
     ELSE   /\ startedAt' = [startedAt EXCEPT ![r] = IF p.refresh THEN 0 ELSE now]
            /\ fetches' = [fetches EXCEPT ![r] = @ + 1]
            /\ pc' = [pc EXCEPT ![r] = "fetching"]
            /\ UNCHANGED <<served, resp>>
  /\ UNCHANGED <<cacheSeconds, sheet, now, cache, thrown, normVars, pageVars, parseVars, uiVars>>

\* as FetchResolve, but the rows are pushed onto the array the cache holds
FetchResolve_InPlace(r) ==
  /\ pc[r] = "fetching"
  /\ LET fresh == FetchedRows[sheet]
         grown == IF params[r].refresh THEN fresh ELSE cache.rows \o fresh
     IN  /\ cache' = IF params[r].refresh THEN cache
                     ELSE [present |-> TRUE, at |-> startedAt[r], rows |-> grown]
         /\ served' = [served EXCEPT ![r] = grown]
         /\ resp' = [resp EXCEPT ![r] = answer(params[r], grown)]
  /\ pc' = [pc EXCEPT ![r] = "done"]
  /\ startedAt' = [startedAt EXCEPT ![r] = 0]
  /\ UNCHANGED <<cacheSeconds, sheet, now, params, fetches, thrown, normVars, pageVars, parseVars, uiVars>>

\* the adapter returns: fetchRows parses the values, getCachedRows (when the
\* request went through it) stores the snapshot, GET answers from the rows
FetchResolve(r) ==
  /\ pc[r] = "fetching"
  /\ LET fresh == FetchedRows[sheet]
     IN  /\ cache' = IF params[r].refresh THEN cache
                     ELSE [present |-> TRUE, at |-> startedAt[r], rows |-> fresh]
         /\ served' = [served EXCEPT ![r] = fresh]
         /\ resp' = [resp EXCEPT ![r] = answer(params[r], fresh)]
  /\ pc' = [pc EXCEPT ![r] = "done"]
  /\ startedAt' = [startedAt EXCEPT ![r] = 0]
  /\ UNCHANGED <<cacheSeconds, sheet, now, params, fetches, thrown, normVars, pageVars, parseVars, uiVars>>

\* a catch block that also drops the snapshot
FetchReject_ClearsCache(r, message) ==
  /\ pc[r] = "fetching"
  /\ thrown' = [thrown EXCEPT ![r] = Append(@, message)]
  /\ resp' = [resp EXCEPT ![r] = ServerErrorResponse(message)]
  /\ pc' = [pc EXCEPT ![r] = "done"]
  /\ startedAt' = [startedAt EXCEPT ![r] = 0]
  /\ cache' = NoCache
  /\ UNCHANGED <<cacheSeconds, sheet, now, params, fetches, served, normVars, pageVars, parseVars, uiVars>>

\* the adapter throws: the exception reaches the catch block of GET
FetchReject(r, message) ==
  /\ pc[r] = "fetching"
  /\ thrown' = [thrown EXCEPT ![r] = Append(@, message)]
  /\ resp' = [resp EXCEPT ![r] = ServerErrorResponse(message)]
  /\ pc' = [pc EXCEPT ![r] = "done"]
  /\ startedAt' = [startedAt EXCEPT ![r] = 0]
  /\ UNCHANGED <<cacheSeconds, sheet, now, cache, params, fetches, served, normVars, pageVars, parseVars, uiVars>>

\* the response has been sent; the slot serves the next request
Close(r) ==
  /\ pc[r] = "done"
  /\ pc' = [pc EXCEPT ![r] = "idle"]
  /\ params' = [params EXCEPT ![r] = NoParams]
  /\ startedAt' = [startedAt EXCEPT ![r] = 0]
  /\ fetches' = [fetches EXCEPT ![r] = 0]
  /\ thrown' = [thrown EXCEPT ![r] = <<>>]
  /\ served' = [served EXCEPT ![r] = <<>>]
  /\ resp' = [resp EXCEPT ![r] = NoResponse]
  /\ UNCHANGED <<cacheSeconds, sheet, now, cache, normVars, pageVars, parseVars, uiVars>>

\* time passes
Tick ==
  /\ now < MaxTicks * TickMs
  /\ now' = now + TickMs
  /\ UNCHANGED <<cacheSeconds, sheet, cache, pc, params, startedAt, fetches, thrown,
                 served, resp, normVars, pageVars, parseVars, uiVars>>

\* somebody edits the remote sheet
SheetEdit(v) ==
  /\ v # sheet
  /\ sheet' = v
  /\ UNCHANGED <<cacheSeconds, now, cache, pc, params, startedAt, fetches, thrown,
                 served, resp, normVars, pageVars, parseVars, uiVars>>

\* the requests of the concurrent specification: UPC lookups of one scan,
\* with and without refresh
CacheParams ==
  {p \in Params : /\ p.type = <<>>
                  /\ p.debug = FALSE
                  /\ p.q = <<"1", "9", "3", "9", "6", "8", "5", "0", "2", "5", "5", "3">>}

CacheSheets == {"A", "Empty"}

\* concurrent requests against the cache
Next ==
  \/ \E r \in Reqs, p \in CacheParams : Request(r, p)
  \/ \E r \in Reqs : FetchResolve(r)
  \/ \E r \in Reqs, m \in AdapterMessages : FetchReject(r, m)
  \/ \E r \in Reqs : Close(r)
  \/ Tick
  \/ \E v \in CacheSheets : SheetEdit(v)

CacheInit == Init /\ sheet \in CacheSheets

Spec == CacheInit /\ [][Next]_vars

\* one request at a time, every kind of query against every sheet
LookupNext ==
  \/ \E p \in Params : Request(1, p)
  \/ FetchResolve(1)
  \/ \E m \in AdapterMessages : FetchReject(1, m)
  \/ Close(1)
  \/ Tick
  \/ \E v \in Sheets : SheetEdit(v)

LookupSpec == Init /\ [][LookupNext]_vars

----------------------------------------------------------------------------
(* The normaliser on its own: strings arrive one character at a time    *)
(* and upcToCore11 is applied to every one of them.                        *)

\* two digits, one of them the zero, and a separator
InputChars == {"0", "7", "-"}

NonDigitCount(s) == Len(s) - Len(digitsOnly(s))

Scan(c) ==
  /\ Len(scanned) < MaxInputLen
  /\ NonDigitCount(Append(scanned, c)) <= MaxNonDigits
  /\ scanned' = Append(scanned, c)
  /\ normalized' = upcToCore11(scanned')
  /\ UNCHANGED <<serverVars, pageVars, parseVars, uiVars>>

NormNext == \E c \in InputChars : Scan(c)

\* the server is idle throughout
NormInit == Init /\ cacheSeconds = <<>> /\ sheet = "A"

NormSpec == NormInit /\ [][NormNext]_vars

----------------------------------------------------------------------------
(* The page's pricing on its own: results arrive with every category and  *)
(* with retails that grow by a cent or by a unit.                           *)

CategorySet ==
  APPAREL_CATEGORIES \cup
  { <<>>,
    <<" ", "M", "E", "N", "S", " ", "A", "P", "P", "A", "R", "E", "L", " ">>,
    <<"m", "e", "n", "s", " ", "a", "p", "p", "a", "r", "e", "l">>,
    <<"T", "O", "Y", "S">> }

\* cents added to the retail from one result to the next
RetailSteps == {0, 1, 100}

ShowResult(c, d) ==
  /\ resultRetail + d * 100 <= MaxRetailCents * 100
  /\ resultCategory' = c
  /\ resultRetail' = resultRetail + d * 100
  /\ shownPrice' = apparelPrice(c, resultRetail')
  /\ UNCHANGED <<serverVars, normVars, parseVars, uiVars>>

PriceNext == \E c \in CategorySet, d \in RetailSteps : ShowResult(c, d)

PriceInit == Init /\ cacheSeconds = <<>> /\ sheet = "A"

PriceSpec == PriceInit /\ [][PriceNext]_vars

----------------------------------------------------------------------------
(* The parser on its own: the sheet gets a header and then data rows, and *)
(* fetchRows is applied to every sheet built.                               *)

\* two retail columns: the one to the left carries the sixth synonym, the
\* other the first, in capitals
SheetHeaderTwoRetails ==
  <<RetailNames[6], ItemNumberName, <<"R", "E", "T", "A", "I", "L", " ", "P", "E", "R", " ", "U", "N", "I", "T">>, UpcNumberName>>

\* no retail column at all
SheetHeaderNoRetail == <<ItemNumberName, UpcNumberName>>

GridHeaders ==
  {SheetHeader, SheetHeaderAlt, SheetHeaderTwoRetails, SheetHeaderNoRetail}

\* an item cell is blank or holds an item number
GridItemTexts == {<<" ">>, <<"A", "-", "7", "7">>}

\* a UPC cell is empty, holds a text without a digit, or a padded number
GridUpcTexts == {<<>>, <<"n", "/", "a">>, <<" ", "0", "1", "2", "3", " ">>}

\* the Sheets API leaves out the empty cells at the end of a row
RECURSIVE CutTrailing(_)
CutTrailing(row) ==
  IF row = <<>> \/ row[Len(row)] # <<>> THEN row
  ELSE CutTrailing(SubSeq(row, 1, Len(row) - 1))

\* a data row under header h: its two identifiers, the other cells filled
\* or all blank; under the header without a retail column a filled row
\* reaches column K
GridRow(h, item, upc, filled) ==
  CutTrailing(
    IF h = SheetHeader
      THEN IF filled
             THEN <<<<"1", "/", "2">>, <<"S", "h", "i", "r", "t">>, item, upc, <<"T", "O", "Y", "S">>, <<"5">>>>
             ELSE <<<<>>, <<>>, item, upc, <<>>, <<>>>>
    ELSE IF h = SheetHeaderTwoRetails
      THEN IF filled THEN <<<<"9">>, item, <<"5">>, upc>>
                     ELSE <<<<>>, item, <<>>, upc>>
    ELSE IF h = SheetHeaderNoRetail
      THEN IF filled
             THEN <<item, upc, <<>>, <<>>, <<>>, <<>>, <<>>, <<>>, <<>>, <<>>, <<"7">>>>
             ELSE <<item, upc>>
    ELSE IF filled THEN <<upc, item, <<"5">>>> ELSE <<upc, item, <<>>>>)

SetHeader(h) ==
  /\ grid = <<>>
  /\ grid' = <<h>>
  /\ parsed' = fetchRows(grid')
  /\ UNCHANGED <<serverVars, normVars, pageVars, uiVars>>

AppendRow(item, upc, filled) ==
  /\ Len(grid) >= 1
  /\ Len(grid) <= MaxRows
  /\ grid' = Append(grid, GridRow(grid[1], item, upc, filled))
  /\ parsed' = fetchRows(grid')
  /\ UNCHANGED <<serverVars, normVars, pageVars, uiVars>>

ParseNext ==
  \/ \E h \in GridHeaders : SetHeader(h)
  \/ \E item \in GridItemTexts, upc \in GridUpcTexts, filled \in BOOLEAN :
       AppendRow(item, upc, filled)

ParseInit == Init /\ cacheSeconds = <<>> /\ sheet = "A"

ParseSpec == ParseInit /\ [][ParseNext]_vars

----------------------------------------------------------------------------
(* The page (src/app/page.tsx): the input, the auto-search timer and      *)
(* doSearch, whose requests are answered by the route in any order.  The   *)
(* scanMode flag only sets the inputMode attribute and is left out.  The   *)
(* timer is modelled without a clock: its callback tests that 180 ms have  *)
(* passed since the effect last ran, and the effect that would reset that  *)
(* time also clears the timer, so a timer that fires always passes it.     *)

NoTimer == <<>>

\* digits.length === 12 || (digits.length === 13 && digits.startsWith("00"))
looksLikeUpc(value) ==
  LET digits == digitsOnly(value)
  IN  \/ Len(digits) = 12
      \/ Len(digits) = 13 /\ digits[1] = "0" /\ digits[2] = "0"

\* the effect of useScannerAutoSearch, run when value, mode or doSearch has
\* changed: the old timer is cleared and, for a UPC-like text in UPC mode, a
\* new one holds the doSearch of this render
useScannerAutoSearch(value, m) ==
  IF m = "upc" /\ looksLikeUpc(value) THEN <<[q |-> value, mode |-> m]>> ELSE NoTimer

\* the texts the input takes
QueryValues ==
  { <<>>,
    <<"1", "9", "3", "9", "6", "8", "5", "0", "2", "5", "5", "3">>,
    <<"A", "B", "C">>,
    <<" ", "7", "7">> }

\* the type parameter doSearch sends
typeParam(m) == IF m = "item" THEN <<"i", "t", "e", "m">> ELSE <<"u", "p", "c">>

\* the requests the page can send; encodeURIComponent and the route's
\* searchParams.get are inverse to each other, so q arrives as it was sent
SentRequests ==
  {[type |-> typeParam(m), q |-> trim(v)] :
     m \in {"upc", "item"}, v \in QueryValues \ {<<>>}}

\* the messages of a fetch() that rejects
FetchErrors == {"", "Failed to fetch"}

\* what fetch() can bring back for a request: the route's answer from any
\* sheet, its 500 after an adapter failure, or a rejection
RepliesTo ==
  [e \in SentRequests |->
     {[threw |-> FALSE, message |-> "",
       res |-> answer([type |-> e.type, q |-> e.q, refresh |-> FALSE,
                       debug |-> FALSE], FetchedRows[v])] : v \in Sheets}
     \cup {[threw |-> FALSE, message |-> "", res |-> ServerErrorResponse(a)] :
             a \in AdapterMessages}
     \cup {[threw |-> TRUE, message |-> a, res |-> NoResponse] : a \in FetchErrors}]

\* doSearch up to its await, called from a render whose query is q0 and
\* whose mode is m0
doSearch(q0, m0) ==
  IF trim(q0) = <<>>
    THEN UNCHANGED <<loading, error, found, result, searched, sent, replies,
                     callsSinceChange>>
    ELSE /\ Len(sent) < MaxSearches
         /\ loading' = TRUE
         /\ error' = <<>>
         /\ found' = <<>>
         /\ result' = <<>>
         /\ searched' = Null
         /\ sent' = Append(sent, [type |-> typeParam(m0), q |-> trim(q0)])
         /\ replies' = Append(replies, <<>>)
         /\ callsSinceChange' = callsSinceChange + 1

\* onChange: setQuery(e.target.value), then the effect
Change(v) ==
  /\ v # query
  /\ query' = v
  /\ timer' = useScannerAutoSearch(v, mode)
  /\ callsSinceChange' = 0
  /\ UNCHANGED <<mode, loading, found, searched, error, result, sent, replies>>
  /\ UNCHANGED <<serverVars, normVars, pageVars, parseVars>>

\* onKeyDown with Enter
PressEnter ==
  /\ doSearch(query, mode)
  /\ UNCHANGED <<mode, query, timer>>
  /\ UNCHANGED <<serverVars, normVars, pageVars, parseVars>>

\* the Search button, disabled while loading or on a blank input
ClickSearch ==
  /\ ~loading
  /\ trim(query) # <<>>
  /\ doSearch(query, mode)
  /\ UNCHANGED <<mode, query, timer>>
  /\ UNCHANGED <<serverVars, normVars, pageVars, parseVars>>

\* the timeout of 220 ms expires and calls the doSearch it holds
TimerFires ==
  /\ timer # NoTimer
  /\ timer' = NoTimer
  /\ doSearch(timer[1].q, timer[1].mode)
  /\ UNCHANGED <<mode, query>>
  /\ UNCHANGED <<serverVars, normVars, pageVars, parseVars>>

\* the rest of doSearch for request j once fetch() has settled with reply:
\* the branches on res.ok and data.found or the catch block, then finally
Respond(j, reply) ==
  /\ j \in 1..Len(sent)
  /\ replies[j] = <<>>
  /\ reply \in RepliesTo[sent[j]]
  /\ replies' = [replies EXCEPT ![j] = <<reply>>]
  /\ loading' = FALSE
  /\ IF reply.threw
       THEN /\ error' = <<IF reply.message = "" THEN "Unexpected error"
                          ELSE reply.message>>
            /\ UNCHANGED <<found, result, searched>>
     ELSE IF reply.res.status # 200
       THEN /\ error' = <<IF reply.res.error = "" THEN "Search failed"
                          ELSE reply.res.error>>
            /\ UNCHANGED <<found, result, searched>>
     ELSE   /\ searched' = IF "searched" \in reply.res.keys /\ reply.res.searched # <<>>
                             THEN reply.res.searched ELSE searched
            /\ IF reply.res.found
                 THEN found' = <<TRUE>> /\ result' = <<reply.res.result>>
                 ELSE found' = <<FALSE>> /\ UNCHANGED result
            /\ UNCHANGED error
  /\ query' = <<>>
  /\ timer' = IF query # <<>> THEN useScannerAutoSearch(<<>>, mode) ELSE timer
  /\ callsSinceChange' = IF query # <<>> THEN 0 ELSE callsSinceChange
  /\ UNCHANGED <<mode, sent>>
  /\ UNCHANGED <<serverVars, normVars, pageVars, parseVars>>

\* the mode buttons: setMode(m); clear()
SetMode(m) ==
  /\ mode' = m
  /\ query' = <<>>
  /\ error' = <<>>
  /\ found' = <<>>
  /\ result' = <<>>
  /\ searched' = Null
  /\ timer' = IF query # <<>> \/ mode # m THEN useScannerAutoSearch(<<>>, m) ELSE timer
  /\ callsSinceChange' = IF query # <<>> \/ mode # m THEN 0 ELSE callsSinceChange
  /\ UNCHANGED <<loading, sent, replies>>
  /\ UNCHANGED <<serverVars, normVars, pageVars, parseVars>>

\* the Clear button: clear()
Clear == SetMode(mode)

PageNext ==
  \/ \E v \in QueryValues : Change(v)
  \/ PressEnter
  \/ ClickSearch
  \/ TimerFires
  \/ \E j \in 1..MaxSearches, e \in SentRequests : \E reply \in RepliesTo[e] :
       Respond(j, reply)
  \/ \E m \in {"upc", "item"} : SetMode(m)
  \/ Clear

PageInit == Init /\ cacheSeconds = <<>> /\ sheet = "A"

PageSpec == PageInit /\ [][PageNext]_vars

----------------------------------------------------------------------------
(* Properties of the cache (specification Spec) *)

\* the time to live the configuration asks for, in milliseconds
ConfiguredTtlMs ==
  (IF cacheSeconds = <<>> THEN 30 ELSE NatValue(cacheSeconds)) * 1000

\* request r leaves "idle" in this step with a non-blank query
Starts(r) == pc[r] = "idle" /\ pc'[r] # "idle" /\ trim(params'[r].q) # <<>>

\* the adapter answers request r in this step, successfully
Resolves(r) == pc[r] = "fetching" /\ pc'[r] = "done" /\ thrown'[r] = <<>>

\* C1: a lookup without refresh that finds a snapshot younger than ttl (30 s
\* when SHEETS_CACHE_SECONDS is unset) is answered at once from the snapshot's
\* rows, makes no adapter call and leaves the snapshot as it is
C1_FreshSnapshotIsServed ==
  [][\A r \in Reqs :
       (/\ Starts(r)
        /\ ~params'[r].refresh
        /\ cache.present
        /\ now - cache.at < ConfiguredTtlMs)
       => (/\ pc'[r] = "done"
           /\ fetches'[r] = 0
           /\ served'[r] = cache.rows
           /\ resp'[r] = answer(params'[r], cache.rows)
           /\ cache' = cache)]_vars

\* a second lookup, later than the snapshot's capture but within ttl, was
\* answered from a non-empty snapshot without an adapter call
C1_Witness ==
  \E r \in Reqs :
    /\ pc[r] = "done" /\ ~params[r].refresh /\ trim(params[r].q) # <<>>
    /\ fetches[r] = 0
    /\ cache.present /\ cache.rows # <<>> /\ served[r] = cache.rows
    /\ now > cache.at /\ now - cache.at < ConfiguredTtlMs
    /\ resp[r].status = 200 /\ resp[r].found

\* C2: a lookup without refresh that finds no snapshot, or one of age >= ttl,
\* calls the adapter exactly once; when the call succeeds the request is
\* answered from the rows just fetched and the snapshot becomes exactly those
\* rows, stamped with the time the request read the clock
C2_StaleSnapshotIsReplaced ==
  [][\A r \in Reqs :
       /\ (/\ Starts(r)
           /\ ~params'[r].refresh
           /\ (~cache.present \/ now - cache.at >= ConfiguredTtlMs))
          => (/\ pc'[r] = "fetching"
              /\ fetches'[r] = 1
              /\ startedAt'[r] = now
              /\ cache' = cache)
       /\ (Resolves(r) /\ ~params[r].refresh)
          => (/\ fetches'[r] = 1
              /\ served'[r] = FetchedRows[sheet]
              /\ resp'[r] = answer(params[r], FetchedRows[sheet])
              /\ cache' = [present |-> TRUE, at |-> startedAt[r],
                           rows |-> FetchedRows[sheet]])]_vars

\* an expired non-empty snapshot has been replaced by a fetch that returned
\* no row: the snapshot is empty and carries the later request's time
C2_Witness ==
  \E r \in Reqs :
    /\ pc[r] = "done" /\ ~params[r].refresh /\ fetches[r] = 1 /\ thrown[r] = <<>>
    /\ cache.present /\ cache.at >= ConfiguredTtlMs /\ cache.rows = <<>>
    /\ served[r] = <<>>
    /\ resp[r].status = 200 /\ ~resp[r].found

\* C3 (as claimed): when a lookup with refresh=1 succeeds, the snapshot holds
\* the rows it fetched
C3_RefreshReplacesSnapshot ==
  [][\A r \in Reqs :
       (Resolves(r) /\ params[r].refresh)
       => (cache'.present /\ cache'.rows = served'[r])]_vars

\* what the adapter threw at request r, as the catch block reports it
ReportedMessage(r) == IF thrown[r][1] = "" THEN "Server error" ELSE thrown[r][1]

\* request r got neither rows nor a lookup result
NotAnsweredFromRows(r) ==
  /\ served[r] = <<>>
  /\ resp[r].keys = {"ok", "error"}
  /\ ~resp[r].ok /\ ~resp[r].found /\ resp[r].result = NoResult

\* C4 (as claimed): a request whose adapter call threw is answered 500 with
\* the adapter's message as error, not from any snapshot, after one call
C4_AdapterMessageReported ==
  \A r \in Reqs :
    (pc[r] = "done" /\ thrown[r] # <<>>)
    => (/\ resp[r].status = 500
        /\ resp[r].error = thrown[r][1]
        /\ NotAnsweredFromRows(r)
        /\ fetches[r] = 1 /\ Len(thrown[r]) = 1)

\* C4 (amended): ... with the adapter's message as error, or "Server error"
\* when what was thrown carries no message
C4_AdapterFailureIs500 ==
  \A r \in Reqs :
    (pc[r] = "done" /\ thrown[r] # <<>>)
    => (/\ resp[r].status = 500
        /\ resp[r].error = ReportedMessage(r)
        /\ NotAnsweredFromRows(r)
        /\ fetches[r] = 1 /\ Len(thrown[r]) = 1)

\* a forced refresh failed with a message while a non-empty snapshot, still
\* within ttl, was there to be served
C4_Witness ==
  \E r \in Reqs :
    /\ pc[r] = "done" /\ thrown[r] # <<>> /\ thrown[r][1] # ""
    /\ params[r].refresh
    /\ cache.present /\ cache.rows # <<>> /\ now - cache.at < ConfiguredTtlMs
    /\ resp[r].status = 500

----------------------------------------------------------------------------
(* Properties of the responses (specification LookupSpec) *)

\* request r has been answered from rows (cached or fetched)
Served(r) == pc[r] = "done" /\ trim(params[r].q) # <<>> /\ thrown[r] = <<>>

\* the mode of request r is item ("item" in any case), else UPC
ItemRequest(r) == toLowerCase(params[r].type) = <<"i", "t", "e", "m">>

\* the 11-digit core of the query of request r, or Null
CoreOf(r) == upcToCore11(trim(params[r].q))

\* the query of request r reduced to its digits
ItemKeyOf(r) == digitsOnly(trim(params[r].q))

\* some row served to request r has the key the request looks for
HasUpcRow(r) == \E i \in 1..Len(served[r]) : served[r][i].upcNumber = CoreOf(r)
HasItemRow(r) ==
  \E i \in 1..Len(served[r]) : digitsOnly(served[r][i].itemNumber) = ItemKeyOf(r)

\* C5 (as claimed): a UPC request with a non-blank query that has no core is
\* answered 400, whatever the cache holds and whatever the adapter does
C5_BadUpcIs400 ==
  \A r \in Reqs :
    (/\ pc[r] = "done"
     /\ ~ItemRequest(r)
     /\ trim(params[r].q) # <<>>
     /\ CoreOf(r) = Null)
    => (resp[r].status = 400 /\ ~resp[r].ok /\ resp[r].keys = {"ok", "error"})

\* C6: a request whose q is missing or blank is answered 400 at once, in
\* either mode and with or without refresh, with no adapter call and the
\* cache left as it is
C6_MissingQueryIs400 ==
  [][\A r \in Reqs :
       (pc[r] = "idle" /\ pc'[r] # "idle" /\ trim(params'[r].q) = <<>>)
       => (/\ pc'[r] = "done"
           /\ resp'[r].status = 400
           /\ ~resp'[r].ok
           /\ resp'[r].keys = {"ok", "error"}
           /\ fetches'[r] = 0
           /\ cache' = cache)]_vars

\* a blank (not missing) query in item mode with refresh=1 was refused while
\* a snapshot existed
C6_Witness ==
  \E r \in Reqs :
    /\ pc[r] = "done" /\ params[r].q = <<" ">> /\ params[r].refresh
    /\ ItemRequest(r)
    /\ cache.present
    /\ resp[r].status = 400 /\ fetches[r] = 0

\* C7: a valid query that matches none of the rows served is answered 200
\* with ok:true, found:false and no result; in UPC mode also with searched,
\* the core
C7_NoMatchIsSoft ==
  \A r \in Reqs :
    /\ (Served(r) /\ ItemRequest(r) /\ ~HasItemRow(r))
       => (/\ resp[r].status = 200 /\ resp[r].ok /\ ~resp[r].found
           /\ resp[r].keys = {"ok", "found"})
    /\ (Served(r) /\ ~ItemRequest(r) /\ CoreOf(r) # Null /\ ~HasUpcRow(r))
       => (/\ resp[r].status = 200 /\ resp[r].ok /\ ~resp[r].found
           /\ "result" \notin resp[r].keys /\ "error" \notin resp[r].keys
           /\ "searched" \in resp[r].keys
           /\ resp[r].searched = CoreOf(r))

\* a UPC scan found no match among rows that were there; searched is its
\* 11-digit core, not the 12 digits scanned
C7_Witness ==
  \E r \in Reqs :
    /\ Served(r) /\ served[r] # <<>>
    /\ ~ItemRequest(r) /\ CoreOf(r) # Null /\ ~HasUpcRow(r)
    /\ Len(resp[r].searched) = 11 /\ resp[r].searched # trim(params[r].q)

\* the UPC cells (trimmed) of the data rows of sheet version v
UpcCells(v) ==
  LET values == SheetValues[v]
  IN  { getAt(values[i], idx(headerOf(values), UpcNumberName)) : i \in 2..Len(values) }

\* C8 (as claimed): a 12-digit scan whose first 11 digits are the UPC cell of
\* a data row of the sheet the rows were parsed from is found, with searched
\* equal to those 11 digits
C8_ScanFindsItsCore ==
  \A r \in Reqs, v \in Sheets :
    (/\ Served(r) /\ ~ItemRequest(r)
     /\ Len(trim(params[r].q)) = 12 /\ AllDigits(trim(params[r].q))
     /\ served[r] = FetchedRows[v]
     /\ SubSeq(trim(params[r].q), 1, 11) \in UpcCells(v))
    => (/\ resp[r].status = 200 /\ resp[r].found
        /\ resp[r].searched = SubSeq(trim(params[r].q), 1, 11))

\* C9: a UPC lookup finds a row iff a served row's upcNumber equals the core,
\* an item lookup iff a served row's itemNumber, reduced to digits, equals
\* the query reduced to digits; the row returned has that key
C9_ExactMatchOnly ==
  \A r \in Reqs :
    /\ (Served(r) /\ ItemRequest(r))
       => (/\ resp[r].found <=> HasItemRow(r)
           /\ resp[r].found => digitsOnly(resp[r].result.itemNumber) = ItemKeyOf(r))
    /\ (Served(r) /\ ~ItemRequest(r) /\ CoreOf(r) # Null)
       => (/\ resp[r].found <=> HasUpcRow(r)
           /\ resp[r].found => resp[r].result.upcNumber = CoreOf(r))

\* an item query found a row whose item number differs from the query as
\* typed and equals it digit for digit
C9_Witness ==
  \E r \in Reqs :
    /\ Served(r) /\ ItemRequest(r) /\ resp[r].found
    /\ resp[r].result.itemNumber # trim(params[r].q)
    /\ digitsOnly(resp[r].result.itemNumber) = ItemKeyOf(r)

----------------------------------------------------------------------------
(* Properties of the normaliser (specification NormSpec) *)

\* C10: an input with exactly 12 digits, other characters ignored, is
\* normalised to the first 11 of those digits
C10_TwelveDigitsDropCheck ==
  Len(digitsOnly(scanned)) = 12
    => normalized = SubSeq(digitsOnly(scanned), 1, 11)

\* a 12-digit code with a leading zero and a separator has been normalised
C10_Witness ==
  /\ Len(digitsOnly(scanned)) = 12 /\ Len(scanned) = 13
  /\ Head(scanned) = "0"
  /\ Len(normalized) = 11

\* C11: a string of 11 digits is returned unchanged, and normalising a
\* result again returns that result
C11_CorePassesThrough ==
  /\ (Len(scanned) = 11 /\ AllDigits(scanned)) => normalized = scanned
  /\ normalized # Null => upcToCore11(normalized) = normalized

\* an 11-digit core that begins with a zero came back as typed
C11_Witness ==
  /\ Len(scanned) = 11 /\ AllDigits(scanned) /\ Head(scanned) = "0"
  /\ normalized = scanned

\* C12 (as claimed): every 13-digit string "00" + c, c an 11-digit core, is
\* normalised to c, as the 12-digit UPC-A c + check digit is
C12_PaddedScanGivesCore ==
  (/\ Len(scanned) = 13 /\ AllDigits(scanned)
   /\ scanned[1] = "0" /\ scanned[2] = "0")
  => (/\ normalized = SubSeq(scanned, 3, 13)
      /\ \A k \in DigitChars :
           normalized = upcToCore11(Append(SubSeq(scanned, 3, 13), k)))

\* the digits an input leaves once its 13-digit form has lost its leading zeros
ReducedLen(s) ==
  LET d == digitsOnly(s)
      z == IF \E i \in 1..Len(d) : d[i] # "0"
             THEN (CHOOSE i \in 1..Len(d) : d[i] # "0" /\ \A j \in 1..(i - 1) : d[j] = "0") - 1
             ELSE Len(d)
  IN  IF Len(d) = 13 THEN Len(d) - z ELSE Len(d)

\* C13 (as claimed): an input whose digit count is not 11, not 12 and not a
\* 13 that leading-zero stripping reduces to 12 is normalised to null
C13_OtherLengthsAreNull ==
  LET n == Len(digitsOnly(scanned))
  IN  ~(n = 11 \/ n = 12 \/ (n = 13 /\ ReducedLen(scanned) = 12))
        => normalized = Null

\* C13 (amended): ... and not a 13 that leading-zero stripping reduces to 12
\* or to 11 digits ...
C13_UnreducibleLengthsAreNull ==
  LET n == Len(digitsOnly(scanned))
  IN  ~(n = 11 \/ n = 12 \/ (n = 13 /\ ReducedLen(scanned) \in {11, 12}))
        => normalized = Null

\* 13 digits without a leading zero, typed with a separator, were refused
C13_Witness ==
  /\ Len(digitsOnly(scanned)) = 13 /\ Len(scanned) = 14
  /\ ReducedLen(scanned) = 13
  /\ normalized = Null

----------------------------------------------------------------------------
(* Properties of the result fields (specification LookupSpec) *)

\* the served row that request r was answered with, when it found one
MatchedRow(r) ==
  served[r][IF ItemRequest(r)
              THEN CHOOSE i \in 1..Len(served[r]) :
                     /\ digitsOnly(served[r][i].itemNumber) = ItemKeyOf(r)
                     /\ \A j \in 1..(i - 1) :
                          digitsOnly(served[r][j].itemNumber) # ItemKeyOf(r)
              ELSE CHOOSE i \in 1..Len(served[r]) :
                     /\ served[r][i].upcNumber = CoreOf(r)
                     /\ \A j \in 1..(i - 1) : served[r][j].upcNumber # CoreOf(r)]

Found(r) == Served(r) /\ resp[r].found

\* C14 (as claimed): tier1 of a result is retail * 0.7 rounded to the nearest
\* whole currency unit (numbers in 1/10000 units)
C14_Tier1IsWholeUnits ==
  \A r \in Reqs :
    Found(r) =>
      resp[r].result.tier1
        = ((parseMoney(MatchedRow(r).retailPerUnit) * 7 + 50000) \div 100000) * 10000

\* C15 (as claimed): tier2 of a result is retail * 0.5 rounded up to a whole
\* currency unit
C15_Tier2IsCeiling ==
  \A r \in Reqs :
    Found(r) =>
      resp[r].result.tier2
        = ((parseMoney(MatchedRow(r).retailPerUnit) * 5 + 99999) \div 100000) * 10000

\* a retail text with the currency sign and the commas removed, trimmed
BareMoney(text) == trim(SelectSeq(text, LAMBDA c : c \notin {"$", ","}))

HasNoDigit(s) == \A i \in 1..Len(s) : s[i] \notin DigitChars

\* C18: whatever the retail text of the matched row, the lookup answers 200
\* with a result; "$" and "," do not count, a text without any digit (empty
\* or not a number) gives retail 0, a text of digits gives their value
C18_MoneyNeverFails ==
  \A r \in Reqs :
    Found(r) =>
      LET bare == BareMoney(MatchedRow(r).retailPerUnit)
      IN  /\ resp[r].status = 200 /\ resp[r].ok
          /\ {"retail", "tier1", "tier2"} \subseteq resp[r].result.keys
          /\ HasNoDigit(bare) => resp[r].result.retail = 0
          /\ (bare # <<>> /\ AllDigits(bare))
               => resp[r].result.retail = NatValue(bare) * 10000

\* a row whose retail text is "n/a" was found and reported with retail 0
C18_Witness ==
  \E r \in Reqs :
    /\ Found(r)
    /\ MatchedRow(r).retailPerUnit # <<>>
    /\ HasNoDigit(MatchedRow(r).retailPerUnit)
    /\ resp[r].status = 200 /\ resp[r].result.retail = 0

\* the adapter threw at request r in this step
Fails(r) == Len(thrown'[r]) > Len(thrown[r])

\* request r, which went through getCachedRows, got its rows in this step
StoresSnapshot(r) ==
  /\ pc[r] = "fetching" /\ pc'[r] = "done"
  /\ ~params[r].refresh
  /\ thrown'[r] = thrown[r]
  /\ resp'[r].status = 200
  /\ cache' = [present |-> TRUE, at |-> startedAt[r], rows |-> served'[r]]

\* C19: a step in which the adapter fails leaves the cache as it was; the
\* cache changes only when a fetch through the cache succeeds, and then to
\* the rows and the start time of that fetch; it is never emptied again
C19_FailureKeepsSnapshot ==
  [][/\ (\E r \in Reqs : Fails(r)) => cache' = cache
     /\ cache' # cache => \E r \in Reqs : StoresSnapshot(r)
     /\ cache.present => cache'.present]_vars

\* a fetch through the cache has failed and the expired, non-empty snapshot
\* it was to replace is still there
C19_Witness ==
  \E r \in Reqs :
    /\ pc[r] = "done" /\ thrown[r] # <<>> /\ ~params[r].refresh
    /\ cache.present /\ cache.rows # <<>>
    /\ now - cache.at >= ConfiguredTtlMs

\* C20 (as claimed): a UPC request whose query has no core never calls the
\* adapter
C20_BadUpcNeverFetches ==
  \A r \in Reqs :
    (/\ pc[r] # "idle"
     /\ ~ItemRequest(r)
     /\ trim(params[r].q) # <<>>
     /\ CoreOf(r) = Null)
    => fetches[r] = 0

----------------------------------------------------------------------------
(* Properties of the apparel price (specification PriceSpec) *)

ClaimedApparelSet ==
  { <<"M", "E", "N", "S", " ", "A", "P", "P", "A", "R", "E", "L">>,
    <<"B", "A", "S", "I", "C", " ", "A", "P", "P", "A", "R", "E", "L">>,
    <<"A", "C", "C", "E", "S", "S", "O", "R", "I", "E", "S">>,
    <<"L", "A", "D", "I", "E", "S", " ", "A", "P", "P", "A", "R", "E", "L">>,
    <<"C", "H", "I", "L", "D", "R", "E", "N", "S", " ", "A", "P", "P", "A", "R", "E", "L">> }

\* the step table of the claim, retail in cents
ClaimedBracket(cents) ==
  CASE cents <= 1599 -> 6
    [] cents > 1599 /\ cents <= 2299 -> 8
    [] cents > 2299 /\ cents <= 2799 -> 10
    [] cents > 2799 /\ cents <= 3099 -> 12
    [] cents > 3099 /\ cents <= 3699 -> 15
    [] cents > 3699 /\ cents <= 4499 -> 20
    [] OTHER -> 25

ApparelPricePresent == shownPrice # NullPrice

\* C16: the apparel price is present exactly when the trimmed category is
\* one of the five labels; then it is the step-table value of the retail,
\* and it never goes down when the retail goes up; otherwise it is null,
\* not zero
C16_ApparelBracket ==
  /\ [](/\ ApparelPricePresent <=> trim(resultCategory) \in ClaimedApparelSet
        /\ ApparelPricePresent
             => shownPrice = <<ClaimedBracket(resultRetail \div 100)>>
        /\ ~ApparelPricePresent => shownPrice # <<0>>)
  /\ [][(ApparelPricePresent /\ ApparelPricePresent'
          /\ resultRetail' >= resultRetail)
        => shownPrice'[1] >= shownPrice[1]]_vars

\* a padded apparel category at retail 16.00 is priced 8
C16_Witness ==
  /\ resultCategory = <<" ", "M", "E", "N", "S", " ", "A", "P", "P", "A", "R", "E", "L", " ">>
  /\ resultRetail = 160000
  /\ shownPrice = <<8>>

----------------------------------------------------------------------------
(* Properties of the parser (specification ParseSpec) *)

\* the column, counted from 1, the parser reads name in, or 0
ColumnOf(name) == idx(headerOf(grid), name) + 1

\* the trimmed cell of data row i (row 1 is the header) in column col, empty
\* when the row has no such cell
CellAt(i, col) ==
  IF col >= 1 /\ col <= Len(grid[i]) THEN trim(grid[i][col]) ELSE <<>>

\* the trimmed cell of data row i under the column called name
CellOf(i, name) == CellAt(i, ColumnOf(name))

HasIdentifier(i) ==
  CellOf(i, ItemNumberName) # <<>> \/ CellOf(i, UpcNumberName) # <<>>

\* the data rows with an identifier, in the order of the sheet
KeptRows ==
  LET cItem == ColumnOf(ItemNumberName)
      cUpc == ColumnOf(UpcNumberName)
  IN  SelectSeq([k \in 1..(Len(grid) - 1) |-> k + 1],
                LAMBDA i : CellAt(i, cItem) # <<>> \/ CellAt(i, cUpc) # <<>>)

\* C17: the parsed rows are, in the order of the sheet, the data rows whose
\* trimmed item cell or trimmed UPC cell is not empty, one for one, whatever
\* the other cells hold
C17_RowsWithAnIdentifierAreKept ==
  LET kept == KeptRows
      cItem == ColumnOf(ItemNumberName)
      cUpc == ColumnOf(UpcNumberName)
      cDescr == ColumnOf(DescriptionName)
  IN  /\ Len(parsed) = Len(kept)
      /\ \A k \in 1..Len(kept) :
           /\ parsed[k].itemNumber = CellAt(kept[k], cItem)
           /\ parsed[k].upcNumber =
                stripLeadingZeros(digitsOnly(CellAt(kept[k], cUpc)))
           /\ parsed[k].description = CellAt(kept[k], cDescr)

\* a row with other cells filled and no identifier was dropped, and the row
\* after it, whose only identifier is a UPC text without a digit, was kept
C17_Witness ==
  /\ Len(grid) = 3
  /\ ~HasIdentifier(2) /\ Len(grid[2]) >= 3
  /\ HasIdentifier(3) /\ CellOf(3, ItemNumberName) = <<>>
  /\ Len(parsed) = 1 /\ parsed[1].upcNumber = <<>>

----------------------------------------------------------------------------
(* Properties of concurrent lookups (specification Spec) *)

\* what one fetch can return
SingleFetchResults == {FetchedRows[v] : v \in Sheets}

\* C21: the rows in the cache and the rows served to any request are always
\* the whole result of one fetch, and the cache changes only by taking, in
\* one step, the rows of one fetch together with that lookup's time
C21_SnapshotIsWhole ==
  /\ [](/\ cache.present => cache.rows \in SingleFetchResults
        /\ \A r \in Reqs : served[r] \in SingleFetchResults)
  /\ [][cache' # cache
          => \E r \in Reqs :
               cache' = [present |-> TRUE, at |-> startedAt[r],
                         rows |-> FetchedRows[sheet]]]_vars

\* the sheet was emptied between two fetches: one request was served the
\* rows of the first, the other the empty result the cache now holds
C21_Witness ==
  \E r \in Reqs, o \in Reqs :
    /\ pc[r] = "done" /\ pc[o] = "done"
    /\ fetches[r] = 1 /\ fetches[o] = 1
    /\ served[r] # <<>> /\ served[o] = <<>>
    /\ resp[o].status = 200
    /\ cache.present /\ cache.rows = <<>>

\* the snapshot is absent or expired
SnapshotIsStale == ~cache.present \/ now - cache.at >= ConfiguredTtlMs

\* C22: a lookup without refresh that starts on a stale snapshot while
\* another such lookup is still fetching makes its own adapter call; and
\* when the cache already holds what the sheet now gives, the fetch that
\* completes next leaves the cached rows the same
C22_NoSingleFlight ==
  [][\A r \in Reqs :
       /\ (/\ Starts(r) /\ ~params'[r].refresh /\ SnapshotIsStale
           /\ \E o \in Reqs \ {r} : pc[o] = "fetching" /\ ~params[o].refresh)
          => (/\ pc'[r] = "fetching" /\ fetches'[r] = 1
              /\ \A o \in Reqs \ {r} : pc'[o] = pc[o] /\ fetches'[o] = fetches[o])
       /\ (/\ Resolves(r) /\ ~params[r].refresh
           /\ cache.present /\ cache.rows = FetchedRows[sheet])
          => cache'.rows = cache.rows]_vars

\* two lookups that were in flight together have each made one adapter call;
\* both were served the same non-empty rows, which the cache holds
C22_Witness ==
  /\ now = 0
  /\ \A r \in Reqs :
       /\ pc[r] = "done" /\ ~params[r].refresh /\ fetches[r] = 1
       /\ thrown[r] = <<>> /\ served[r] = cache.rows
  /\ cache.present /\ cache.rows # <<>>

\* C25 (as claimed): the capture time of the snapshot never goes back
C25_CaptureTimeNeverDecreases ==
  [][(cache.present /\ cache'.present) => cache'.at >= cache.at]_vars

----------------------------------------------------------------------------
(* Properties of the parsed fields (specification ParseSpec) *)

\* the number of zeros s begins with
LeadingZeros(s) ==
  CHOOSE n \in 0..Len(s) :
    /\ \A i \in 1..n : s[i] = "0"
    /\ n = Len(s) \/ s[n + 1] # "0"

\* a cell with its non-digits removed and then its leading zeros
ClaimedUpc(cell) ==
  LET d == SelectSeq(cell, LAMBDA c : c \in DigitChars)
  IN  SubSeq(d, LeadingZeros(d) + 1, Len(d))

\* C23: the upcNumber of every parsed row is made of digits only, does not
\* begin with a zero (it may be empty), and is the UPC cell of its data row
\* with the non-digits removed and then the leading zeros
C23_StoredUpcIsStripped ==
  LET kept == KeptRows
      cUpc == ColumnOf(UpcNumberName)
  IN  \A k \in 1..Len(parsed) :
        /\ AllDigits(parsed[k].upcNumber)
        /\ parsed[k].upcNumber # <<>> => parsed[k].upcNumber[1] # "0"
        /\ k <= Len(kept)
        /\ parsed[k].upcNumber = ClaimedUpc(CellAt(kept[k], cUpc))

\* a padded cell " 0123 " was stored as 123
C23_Witness ==
  \E k \in 1..Len(parsed) :
    /\ k <= Len(KeptRows)
    /\ CellOf(KeptRows[k], UpcNumberName) = <<"0", "1", "2", "3">>
    /\ parsed[k].upcNumber = <<"1", "2", "3">>

\* the first column of the header whose trimmed cell equals name without
\* regard to case, counted from 1, or 0
ClaimedColumn(name) ==
  LET hits == {i \in 1..Len(grid[1]) :
                 toLowerCase(trim(grid[1][i])) = toLowerCase(name)}
  IN  IF hits = {} THEN 0 ELSE CHOOSE i \in hits : \A j \in hits : i <= j

\* the retail column: that of the first synonym the header has, else K
ClaimedRetailColumn ==
  LET present == {n \in 1..Len(RetailNames) : ClaimedColumn(RetailNames[n]) > 0}
  IN  IF present = {} THEN 11
      ELSE ClaimedColumn(RetailNames[CHOOSE n \in present : \A m \in present : n <= m])

\* C24: every field of every parsed row is the trimmed cell under the first
\* header cell that equals the column's name without regard to case, and is
\* empty when the header has no such cell; the retail is read under the
\* first synonym of the list the header has, and in column K when it has none
C24_ColumnsByHeaderName ==
  LET kept == KeptRows
      cImport == ClaimedColumn(ImportDateName)
      cDescr == ClaimedColumn(DescriptionName)
      cItem == ClaimedColumn(ItemNumberName)
      cCat == ClaimedColumn(CategoryName)
      cRetail == ClaimedRetailColumn
  IN  /\ Len(parsed) = Len(kept)
      /\ \A k \in 1..Len(kept) :
           /\ parsed[k].importDate = CellAt(kept[k], cImport)
           /\ parsed[k].description = CellAt(kept[k], cDescr)
           /\ parsed[k].itemNumber = CellAt(kept[k], cItem)
           /\ parsed[k].categoryDescription = CellAt(kept[k], cCat)
           /\ parsed[k].retailPerUnit = CellAt(kept[k], cRetail)

\* under the header with two retail columns a row was read in the column of
\* the first synonym, which is not the leftmost of the two
C24_Witness ==
  /\ Len(grid) >= 2
  /\ grid[1] = SheetHeaderTwoRetails
  /\ Len(parsed) >= 1
  /\ parsed[1].retailPerUnit = <<"5">>
  /\ parsed[1].description = <<>>

----------------------------------------------------------------------------
(* Properties of the match (specification LookupSpec) *)

\* C26 (as claimed): an item lookup finds a row only when its query holds a
\* digit
C26_ItemMatchNeedsADigit ==
  \A r \in Reqs :
    (Found(r) /\ ItemRequest(r)) => digitsOnly(trim(params[r].q)) # <<>>

\* the served rows that satisfy the key equality of request r
MatchingRows(r) ==
  {i \in 1..Len(served[r]) :
     IF ItemRequest(r)
       THEN digitsOnly(served[r][i].itemNumber) = ItemKeyOf(r)
       ELSE served[r][i].upcNumber = CoreOf(r)}

\* C27: a lookup served rows of which some satisfy its key equality is
\* answered found, with the fields of the first of them in the order served
C27_FirstMatchWins ==
  \A r \in Reqs :
    (Served(r) /\ MatchingRows(r) # {})
    => LET first == CHOOSE i \in MatchingRows(r) : \A j \in MatchingRows(r) : i <= j
           row == served[r][first]
       IN  /\ resp[r].found
           /\ resp[r].result.description = row.description
           /\ resp[r].result.itemNumber = row.itemNumber
           /\ resp[r].result.category = row.categoryDescription
           /\ resp[r].result.upcNumber = row.upcNumber
           /\ resp[r].result.retail = roundMoney(parseMoney(row.retailPerUnit))

\* two rows of different item numbers satisfied the key equality and the
\* one served first was returned
C27_Witness ==
  \E r \in Reqs :
    /\ Found(r)
    /\ \E i \in MatchingRows(r), j \in MatchingRows(r) :
         /\ i < j
         /\ served[r][i].itemNumber # served[r][j].itemNumber
         /\ resp[r].result.itemNumber = served[r][i].itemNumber

----------------------------------------------------------------------------
(* Properties of the page (specification PageSpec) *)

\* the timer fires in this step and its doSearch sends a request
TimerSearches ==
  timer # NoTimer /\ timer' = NoTimer /\ Len(sent') = Len(sent) + 1

\* C28 (as claimed): the timer armed by the last keystroke never sends a
\* request for an input for which a request has already been sent
C28_TimerNeverRepeatsTheSearch ==
  [][TimerSearches => callsSinceChange = 0]_vars

InFlight == {j \in 1..Len(sent) : replies[j] = <<>>}

\* C29 (as claimed): of error, the no-match flag and a result at most one is
\* set, and loading is true exactly while a request is in flight
C29_IndicatorsAreExclusive ==
  /\ ~(error # <<>> /\ found = <<FALSE>>)
  /\ ~(error # <<>> /\ result # <<>>)
  /\ ~(found = <<FALSE>> /\ result # <<>>)
  /\ loading <=> InFlight # {}

\* what doSearch shows for one reply
OutcomeOf(reply) ==
  IF reply.threw
    THEN [error |-> <<IF reply.message = "" THEN "Unexpected error" ELSE reply.message>>,
          found |-> <<>>, searched |-> Null, result |-> <<>>]
  ELSE IF reply.res.status # 200
    THEN [error |-> <<IF reply.res.error = "" THEN "Search failed" ELSE reply.res.error>>,
          found |-> <<>>, searched |-> Null, result |-> <<>>]
  ELSE [error |-> <<>>,
        found |-> <<reply.res.found>>,
        searched |-> IF "searched" \in reply.res.keys /\ reply.res.searched # <<>>
                       THEN reply.res.searched ELSE Null,
        result |-> IF reply.res.found THEN <<reply.res.result>> ELSE <<>>]

\* C30 (as claimed): when the last request in flight is answered, the page
\* shows the outcome of the request sent last
C30_LatestSearchWins ==
  [][(InFlight # {} /\ \A j \in 1..Len(sent) : replies'[j] # <<>>)
     => [error |-> error', found |-> found', searched |-> searched',
         result |-> result'] = OutcomeOf(replies'[Len(sent)][1])]_vars

====
